---- MODULE Spec2Model ----
(***************************************************************************)
(* Ledger consistency of the accounting backend: the account, transaction  *)
(* and soft-delete handlers of the router in src/unnamed/part_000 (second  *)
(* router, lines 411-1194) over the mongoose models of src/user.js.        *)
(*                                                                         *)
(* Each handler is split at its awaits.  A request occupies a slot of      *)
(* `req` from its first database call until its response is sent.          *)
(*                                                                         *)
(* Money: request amounts are drawn as multiples of 100 and rates as       *)
(* integers, so amount * tax_rate / 100 is an integer and \div computes    *)
(* exactly what the JavaScript division computes.                          *)
(*                                                                         *)
(* Datastore: handlers that pass { session } run inside a MongoDB          *)
(* multi-document transaction: reads come from the snapshot taken at the   *)
(* first read, writes are staged until commitTransaction, and a staged     *)
(* write to a document that another writer changed after the snapshot, or  *)
(* that another open transaction has staged, throws WriteConflict.         *)
(* Writes made without a session apply at once and wait for a staged       *)
(* write on the same document to commit or abort.                          *)
(***************************************************************************)
EXTENDS Integers, FiniteSets, Sequences, TLC

VARIABLES accounts, txns, nextAcc, req, ops, invoices, res, caller

vars == <<accounts, txns, nextAcc, req, ops, invoices, res, caller>>

(* ------------------------------ bounds -------------------------------- *)
MaxAccounts == 2
MaxTxns == 2
MaxOps == 2
MaxConcOps == 4
MaxInvoices == 2

AccIds == 1..MaxAccounts
TxnIds == 1..MaxTxns
InvIds == 1..MaxInvoices

(* ------------------------- optional JS values ------------------------- *)
\* undefined is <<>>, a supplied value v is <<v>>
Undefined == <<>>
Some(v) == <<v>>
Defined(x) == x # Undefined
Val(x) == x[1]
\* JS truthiness of an optional number: undefined and 0 are falsy
TruthyNum(x) == Defined(x) /\ Val(x) # 0

NoDoc == [missing |-> TRUE]

Types == {"Income", "Expense", "Loan", "Investment"}
Names == {"Cash", "Bank"}

(* --------------------------- pure computations ------------------------- *)
\* the GST of a new transaction: tax_rate > 0 ? (amount * tax_rate) / 100 : 0
CreateTaxAmount(amount, tax_rate) ==
    IF Defined(tax_rate) /\ Val(tax_rate) > 0
    THEN (amount * Val(tax_rate)) \div 100
    ELSE 0

\* tax_rate || 0
StoredTaxRate(tax_rate) == IF TruthyNum(tax_rate) THEN Val(tax_rate) ELSE 0

\* faulty variant: only Income raises the balance, as in the first router's
\* POST /transaction
IsCreditIncomeOnly(type) == type = "Income"

\* the kinds that raise the balance
IsCredit(type) == type \in {"Income", "Investment", "Loan"}

\* the balance after a transaction of `type` over `total` is booked
ApplyEffect(balance, type, total) ==
    IF IsCredit(type) THEN balance + total ELSE balance - total

\* the balance after the old effect of the stored transaction is taken back
RevertEffect(balance, transaction) ==
    IF IsCredit(transaction.type)
    THEN balance - transaction.amount
    ELSE balance + transaction.amount

\* dates are <<year, month, day, hour>>; Date.now() of every request of a
\* behaviour is this instant, which is also the createdAt that
\* { timestamps: true } stamps on a new transaction
Now == <<2026, 11, 2, 12>>

\* new Transaction({...}) of createTransaction
NewTransaction(body) ==
    LET tax_amount == CreateTaxAmount(Val(body.amount), body.tax_rate)
        total_amount == Val(body.amount) + tax_amount
    IN  [type |-> body.type,
         amount |-> Val(body.amount),
         tax_rate |-> StoredTaxRate(body.tax_rate),
         tax_amount |-> tax_amount,
         total |-> total_amount,
         account |-> body.account,
         date |-> IF Defined(body.date) THEN Val(body.date) ELSE Now,
         deleted |-> FALSE]

\* NaN never reaches a stored field: it is only read when amount is supplied
NaN == <<"NaN", "NaN">>
IsNaN(x) == Len(x) = 2

\* tax_rate !== undefined ? (amount * tax_rate) / 100 : transaction.tax_amount
EditTaxAmount(body, transaction) ==
    IF Defined(body.tax_rate)
    THEN IF Defined(body.amount)
         THEN (Val(body.amount) * Val(body.tax_rate)) \div 100
         ELSE NaN
    ELSE transaction.tax_amount

\* faulty variant: amount !== undefined ? amount + tax_amount : transaction.total
EditTotalAmountStoredTotal(body, transaction) ==
    IF Defined(body.amount)
    THEN Val(body.amount) + EditTaxAmount(body, transaction)
    ELSE transaction.total

\* amount !== undefined ? amount + tax_amount : transaction.amount
EditTotalAmount(body, transaction) ==
    IF Defined(body.amount)
    THEN Val(body.amount) + EditTaxAmount(body, transaction)
    ELSE transaction.amount

\* the field assignments of editTransaction on the loaded document
EditFields(body, transaction) ==
    [transaction EXCEPT
       !.type = IF Defined(body.type) THEN Val(body.type) ELSE @,
       !.amount = IF Defined(body.amount)
                  THEN EditTotalAmount(body, transaction) ELSE @,
       !.tax_amount = IF Defined(body.amount)
                      THEN EditTaxAmount(body, transaction) ELSE @,
       !.tax_rate = IF Defined(body.tax_rate) THEN Val(body.tax_rate) ELSE @,
       !.date = IF Defined(body.date) THEN Val(body.date) ELSE @]

(* ------------------------------ requests ------------------------------ *)
Reqs == {1, 2}

\* a slot with no request in it
Idle ==
    [op |-> "none", pc |-> "idle", status |-> 0, sess |-> "none", id |-> 0,
     body |-> Undefined, acct |-> NoDoc, txn |-> NoDoc, total |-> 0,
     wroteTxn |-> FALSE, wroteAcc |-> FALSE, stale |-> {}]

\* a request takes the lowest free slot
Free(r) ==
    /\ req[r].pc = "idle"
    /\ \A q \in Reqs : q < r => req[q].pc # "idle"

Begin(op, id, body) == [Idle EXCEPT !.op = op, !.id = id, !.body = body]

\* no one-step handler has answered yet
NoRes == [op |-> "none", status |-> 0, id |-> 0, body |-> Undefined,
          out |-> Undefined]

\* the locals of a handler that no later line of it reads
Dead(rq) ==
    [rq EXCEPT !.body = Undefined, !.txn = NoDoc, !.total = 0,
               !.acct = IF @ = NoDoc THEN NoDoc
                        ELSE [id |-> @.id, read |-> 0, amount |-> 0]]

\* res.status(status).json(...) is the next thing the handler does
Reply(rq, status) ==
    [(IF status >= 400 THEN Dead(rq) ELSE rq) EXCEPT
       !.pc = "respond", !.status = status]

\* the catch block, or a not-found branch, of a handler that holds a session
Fail(rq, status) == [Dead(rq) EXCEPT !.pc = "abort", !.status = status]

(* --------------------------- datastore model --------------------------- *)
AccKey(id) == <<"acc", id>>
TxnKey(id) == <<"txn", id>>

\* the documents request q has staged in its open transaction
StagedBy(q) ==
    IF req[q].sess # "open" THEN {}
    ELSE (IF req[q].wroteTxn /\ req[q].id # 0 /\ req[q].op = "editTransaction"
          THEN {TxnKey(req[q].id)} ELSE {})
         \cup (IF req[q].wroteAcc THEN {AccKey(req[q].acct.id)} ELSE {})

\* another open transaction has staged a write to document k
Locked(r, k) == \E q \in Reqs \ {r} : k \in StagedBy(q)

\* faulty variant: the saves are not bound to the session's transaction, so no
\* write of a request ever conflicts
NoWriteConflict(r, k) == FALSE

\* a write inside r's transaction to document k throws WriteConflict
WriteConflict(r, k) == k \in req[r].stale \/ Locked(r, k)

\* the slots after r made writes to `keys` visible: every other open
\* transaction's snapshot is now older than those documents
Published(rq, r, keys) ==
    [q \in Reqs |->
       IF q # r /\ rq[q].sess = "open"
       THEN [rq[q] EXCEPT !.stale = @ \cup keys]
       ELSE rq[q]]

AccountExists(id) == accounts[id] # NoDoc
TxnExists(id) == txns[id] # NoDoc
NameTaken(name) == \E a \in AccIds : AccountExists(a) /\ accounts[a].name = name
NextTxnId == Cardinality({t \in TxnIds : TxnExists(t)}) + 1
\* Transaction.find({ account: id })
TransactionsOf(id) == {t \in TxnIds : TxnExists(t) /\ txns[t].account = id}

\* an empty database
Init ==
    /\ accounts = [a \in AccIds |-> NoDoc]
    /\ txns = [t \in TxnIds |-> NoDoc]
    /\ nextAcc = 1
    /\ req = [r \in Reqs |-> Idle]
    /\ ops = 0
    /\ invoices = [i \in InvIds |-> NoDoc]
    /\ res = NoRes
    /\ caller = "none"

(* --------------------------- account handlers -------------------------- *)
\* POST /accounts up to the answer of Account.findOne({ name })
CreateAccountFind(r, body) ==
    /\ Free(r)
    /\ nextAcc + Cardinality({q \in Reqs : req[q].pc = "ca_save"}) <= MaxAccounts
    /\ req' = [req EXCEPT ![r] =
         IF ~Defined(body.name) \/ ~Defined(body.amount)
         THEN Reply(Begin("createAccount", 0, body), 400)
         ELSE IF NameTaken(Val(body.name))
         THEN Reply(Begin("createAccount", 0, body), 400)
         ELSE [Begin("createAccount", 0, body) EXCEPT !.pc = "ca_save"]]
    /\ ops' = ops + 1
    /\ UNCHANGED <<accounts, txns, nextAcc, invoices, res>>

\* faulty variant: newAccount.save() with no unique index on name
CreateAccountSaveNoIndex(r) ==
    /\ req[r].pc = "ca_save"
    /\ accounts' = [accounts EXCEPT ![nextAcc] =
         [name |-> Val(req[r].body.name),
          amount |-> Val(req[r].body.amount)]]
    /\ nextAcc' = nextAcc + 1
    /\ req' = [req EXCEPT ![r] = Reply([@ EXCEPT !.id = nextAcc], 201)]
    /\ UNCHANGED <<txns, ops, invoices, res, caller>>

\* newAccount.save(): the unique index on name rejects a duplicate
CreateAccountSave(r) ==
    /\ req[r].pc = "ca_save"
    /\ IF NameTaken(Val(req[r].body.name))
       THEN /\ req' = [req EXCEPT ![r] = Reply(@, 500)]
            /\ UNCHANGED <<accounts, nextAcc>>
       ELSE /\ accounts' = [accounts EXCEPT ![nextAcc] =
                 [name |-> Val(req[r].body.name),
                  amount |-> Val(req[r].body.amount)]]
            /\ nextAcc' = nextAcc + 1
            /\ req' = [req EXCEPT ![r] = Reply([@ EXCEPT !.id = nextAcc], 201)]
    /\ UNCHANGED <<txns, ops, invoices, res, caller>>

\* PUT /updateaccount/:id up to the answer of Account.findById
UpdateAccountFind(r, id, body) ==
    /\ Free(r)
    /\ req' = [req EXCEPT ![r] =
         IF ~AccountExists(id)
         THEN Reply(Begin("updateAccount", id, body), 404)
         ELSE [Begin("updateAccount", id, body) EXCEPT
                 !.pc = "ua_save",
                 !.acct = [id |-> id, name |-> accounts[id].name,
                           amount |-> accounts[id].amount]]]
    /\ ops' = ops + 1
    /\ UNCHANGED <<accounts, txns, nextAcc, invoices, res>>

\* the fields the handler assigned that differ from the loaded document:
\* account.save() sends only these
UpdateSetsName(rq) == Defined(rq.body.name) /\ Val(rq.body.name) # rq.acct.name
UpdateSetsAmount(rq) ==
    Defined(rq.body.amount) /\ Val(rq.body.amount) # rq.acct.amount

\* faulty variant: account.amount = amount || 0, assigned whether or not the body
\* supplies amount
UpdatedAccountAmountDefaulted(doc, rq) ==
    [name |-> IF UpdateSetsName(rq) THEN Val(rq.body.name) ELSE doc.name,
     amount |-> IF Defined(rq.body.amount) THEN Val(rq.body.amount) ELSE 0]

\* the stored account after account.save() of updateAccount
UpdatedAccount(doc, rq) ==
    [name |-> IF UpdateSetsName(rq) THEN Val(rq.body.name) ELSE doc.name,
     amount |-> IF UpdateSetsAmount(rq) THEN Val(rq.body.amount) ELSE doc.amount]

\* account.save() of updateAccount
UpdateAccountSave(r) ==
    LET rq == req[r]
        id == rq.id
        nameClash ==
            \E a \in AccIds \ {id} :
                AccountExists(a) /\ accounts[a].name = Val(rq.body.name)
    IN
    /\ rq.pc = "ua_save"
    /\ ~Locked(r, AccKey(id))
    /\ IF ~UpdateSetsName(rq) /\ ~UpdateSetsAmount(rq)
       THEN /\ req' = [req EXCEPT ![r] = Reply(@, 200)]
            /\ UNCHANGED accounts
       ELSE IF ~AccountExists(id) \/ (UpdateSetsName(rq) /\ nameClash)
       THEN /\ req' = [req EXCEPT ![r] = Reply(@, 500)]
            /\ UNCHANGED accounts
       ELSE /\ accounts' = [accounts EXCEPT ![id] = UpdatedAccount(@, rq)]
            /\ req' = [Published(req, r, {AccKey(id)}) EXCEPT
                         ![r] = Reply(@, 200)]
    /\ UNCHANGED <<txns, nextAcc, ops, invoices, res, caller>>

\* DELETE /:id up to the answer of Account.findById
DeleteAccountFind(r, id) ==
    /\ Free(r)
    /\ req' = [req EXCEPT ![r] =
         IF ~AccountExists(id)
         THEN Reply(Begin("deleteAccount", id, Undefined), 404)
         ELSE [Begin("deleteAccount", id, Undefined) EXCEPT !.pc = "da_check"]]
    /\ ops' = ops + 1
    /\ UNCHANGED <<accounts, txns, nextAcc, invoices, res>>

\* faulty variant: Transaction.find({ account, deleted: false })
HasLiveTransactions(id) ==
    \E t \in TransactionsOf(id) : ~txns[t].deleted

\* faulty variant: transactions.length > 1
HasTransactionsOffByOne(id) == Cardinality(TransactionsOf(id)) > 1

\* transactions.length > 0 of deleteAccount
HasTransactions(id) == TransactionsOf(id) # {}

\* Transaction.find({ account }) and the test of its length
DeleteAccountCheck(r) ==
    /\ req[r].pc = "da_check"
    /\ req' = [req EXCEPT ![r] =
         IF HasTransactions(req[r].id)
         THEN Reply(@, 400)
         ELSE [@ EXCEPT !.pc = "da_delete"]]
    /\ UNCHANGED <<accounts, txns, nextAcc, ops, invoices, res, caller>>

\* faulty variant: the delete looks for referencing transactions again and
\* refuses when it finds one
DeleteAccountDeleteRechecking(r) ==
    /\ req[r].pc = "da_delete"
    /\ ~Locked(r, AccKey(req[r].id))
    /\ IF HasTransactions(req[r].id)
       THEN /\ req' = [req EXCEPT ![r] = Reply(@, 400)]
            /\ UNCHANGED accounts
       ELSE /\ accounts' = [accounts EXCEPT ![req[r].id] = NoDoc]
            /\ req' = [Published(req, r, {AccKey(req[r].id)}) EXCEPT
                         ![r] = Reply(@, 200)]
    /\ UNCHANGED <<txns, nextAcc, ops, invoices, res, caller>>

\* Account.findByIdAndDelete
DeleteAccountDelete(r) ==
    /\ req[r].pc = "da_delete"
    /\ ~Locked(r, AccKey(req[r].id))
    /\ accounts' = [accounts EXCEPT ![req[r].id] = NoDoc]
    /\ req' = [Published(req, r, {AccKey(req[r].id)}) EXCEPT
                 ![r] = Reply(@, 200)]
    /\ UNCHANGED <<txns, nextAcc, ops, invoices, res, caller>>

(* ------------------------- transaction handlers ------------------------ *)
\* !type || !category || !amount || !payment_mode || !account
MissingFields(body) == ~TruthyNum(body.amount)

\* POST /transactions up to the answer of Account.findById(account)
CreateTransactionFind(r, body) ==
    /\ Free(r)
    /\ NextTxnId + Cardinality({q \in Reqs : req[q].op = "createTransaction"
                                              /\ req[q].sess = "open"}) <= MaxTxns
    /\ req' = [req EXCEPT ![r] =
         IF MissingFields(body)
         THEN Reply(Begin("createTransaction", 0, body), 400)
         ELSE IF ~AccountExists(body.account)
         THEN Fail([Begin("createTransaction", 0, body) EXCEPT
                      !.sess = "open"], 404)
         ELSE [Begin("createTransaction", 0, body) EXCEPT
                 !.sess = "open", !.pc = "ct_saveTxn",
                 !.acct = [id |-> body.account,
                           read |-> accounts[body.account].amount,
                           amount |-> accounts[body.account].amount]]]
    /\ ops' = ops + 1
    /\ UNCHANGED <<accounts, txns, nextAcc, invoices, res>>

\* faulty variant: newTransaction.save() without { session }: the record is stored
\* at once, outside the unit
CreateTransactionSaveTxnNoSession(r) ==
    LET rq == req[r] IN
    /\ rq.pc = "ct_saveTxn"
    /\ txns' = [txns EXCEPT ![NextTxnId] = NewTransaction(rq.body)]
    /\ req' = [req EXCEPT ![r] =
         [rq EXCEPT !.txn = NewTransaction(rq.body),
                    !.total = NewTransaction(rq.body).total,
                    !.pc = "ct_saveAcc"]]
    /\ UNCHANGED <<accounts, nextAcc, ops, invoices, res, caller>>

\* the GST calculation, new Transaction and newTransaction.save({ session })
CreateTransactionSaveTxn(r) ==
    LET rq == req[r] IN
    /\ rq.pc = "ct_saveTxn"
    /\ req' = [req EXCEPT ![r] =
         [rq EXCEPT !.txn = NewTransaction(rq.body),
                    !.total = NewTransaction(rq.body).total,
                    !.wroteTxn = TRUE,
                    !.pc = "ct_saveAcc"]]
    /\ UNCHANGED <<accounts, txns, nextAcc, ops, invoices, res, caller>>

\* the balance update and foundAccount.save({ session })
CreateTransactionSaveAcc(r) ==
    LET rq == req[r]
        amount == ApplyEffect(rq.acct.amount, rq.body.type, rq.total)
    IN
    /\ rq.pc = "ct_saveAcc"
    /\ req' = [req EXCEPT ![r] =
         IF WriteConflict(r, AccKey(rq.acct.id))
         THEN Fail([@ EXCEPT !.acct.amount = amount], 500)
         ELSE [@ EXCEPT !.acct.amount = amount, !.wroteAcc = TRUE,
                        !.pc = "commit"]]
    /\ UNCHANGED <<accounts, txns, nextAcc, ops, invoices, res, caller>>

\* faulty variant: !transaction, the deleted flag is not looked at
TransactionAbsent(id) == ~TxnExists(id)

\* !transaction || transaction.deleted
TransactionMissing(id) == ~TxnExists(id) \/ txns[id].deleted

\* PUT /updatetransaction/:id up to the answers of Transaction.findById and
\* Account.findById, both read from the snapshot of the first
EditTransactionFind(r, id, body) ==
    /\ Free(r)
    /\ req' = [req EXCEPT ![r] =
         IF TransactionMissing(id)
         THEN Fail([Begin("editTransaction", id, body) EXCEPT
                      !.sess = "open"], 404)
         ELSE IF ~AccountExists(txns[id].account)
         THEN Fail([Begin("editTransaction", id, body) EXCEPT
                      !.sess = "open", !.txn = txns[id]], 404)
         ELSE [Begin("editTransaction", id, body) EXCEPT
                 !.sess = "open", !.pc = "et_saveTxn", !.txn = txns[id],
                 !.acct = [id |-> txns[id].account,
                           read |-> accounts[txns[id].account].amount,
                           amount |-> accounts[txns[id].account].amount]]]
    /\ ops' = ops + 1
    /\ UNCHANGED <<accounts, txns, nextAcc, invoices, res>>

\* the revert, the recalculation, the field updates and
\* transaction.save({ session }), which sends the modified fields only;
\* `other` is whether category, payment_mode or description changed
EditTransactionSaveTxn(r) ==
    LET rq == req[r]
        edited == EditFields(rq.body, rq.txn)
        next == [rq EXCEPT !.acct.amount = RevertEffect(@, rq.txn),
                           !.total = EditTotalAmount(rq.body, rq.txn),
                           !.txn = edited]
    IN
    /\ rq.pc = "et_saveTxn"
    /\ \E other \in BOOLEAN :
         req' = [req EXCEPT ![r] =
           IF edited = rq.txn /\ ~other
           THEN [next EXCEPT !.pc = "et_saveAcc"]
           ELSE IF WriteConflict(r, TxnKey(rq.id))
           THEN Fail(next, 500)
           ELSE [next EXCEPT !.wroteTxn = TRUE, !.pc = "et_saveAcc"]]
    /\ UNCHANGED <<accounts, txns, nextAcc, ops, invoices, res, caller>>

\* the new effect and account.save({ session }); when the balance is back
\* at the value that was read, whether the driver still sends it depends on
\* the mongoose version, so both are possible
EditTransactionSaveAcc(r) ==
    LET rq == req[r]
        amount == ApplyEffect(rq.acct.amount, rq.txn.type, rq.total)
        next == [rq EXCEPT !.acct.amount = amount]
    IN
    /\ rq.pc = "et_saveAcc"
    /\ \E sends \in (IF amount = rq.acct.read THEN BOOLEAN ELSE {TRUE}) :
         req' = [req EXCEPT ![r] =
           IF ~sends
           THEN [next EXCEPT !.pc = "commit"]
           ELSE IF WriteConflict(r, AccKey(rq.acct.id))
           THEN Fail(next, 500)
           ELSE [next EXCEPT !.wroteAcc = TRUE, !.pc = "commit"]]
    /\ UNCHANGED <<accounts, txns, nextAcc, ops, invoices, res, caller>>

\* the transactions collection after r's staged transaction write applies
CommittedTxns(rq) ==
    IF ~rq.wroteTxn THEN txns
    ELSE IF rq.op = "createTransaction"
    THEN [txns EXCEPT ![NextTxnId] = rq.txn]
    ELSE [txns EXCEPT ![rq.id] =
            [@ EXCEPT !.type = rq.txn.type, !.amount = rq.txn.amount,
                      !.tax_amount = rq.txn.tax_amount,
                      !.tax_rate = rq.txn.tax_rate,
                      !.date = rq.txn.date]]

\* the accounts collection after r's staged balance write applies
CommittedAccounts(rq) ==
    IF rq.wroteAcc /\ AccountExists(rq.acct.id)
    THEN [accounts EXCEPT ![rq.acct.id].amount = rq.acct.amount]
    ELSE accounts

\* session.commitTransaction(): the staged writes become visible together
Commit(r) ==
    LET rq == req[r] IN
    /\ rq.pc = "commit"
    /\ txns' = CommittedTxns(rq)
    /\ accounts' = CommittedAccounts(rq)
    /\ req' = [Published(req, r, StagedBy(r)) EXCEPT ![r] =
         Reply([rq EXCEPT !.sess = "committed",
                          !.id = IF rq.op = "createTransaction"
                                 THEN NextTxnId ELSE @],
               IF rq.op = "createTransaction" THEN 201 ELSE 200)]
    /\ UNCHANGED <<nextAcc, ops, invoices, res, caller>>

\* a save or the commit inside the try block throws (validation, network,
\* transient transaction error): control passes to the catch block.  A
\* commitTransaction() that throws leaves the session in its committed
\* state, as the driver does so that the commit can be called again; the
\* server has dropped the staged writes
Throw(r) ==
    /\ req[r].pc \in {"ct_saveTxn", "ct_saveAcc", "et_saveTxn", "et_saveAcc",
                      "commit"}
    /\ req' = [req EXCEPT ![r] =
         IF @.pc = "commit"
         THEN [Fail(@, 500) EXCEPT !.sess = "commitFailed"]
         ELSE Fail(@, 500)]
    /\ UNCHANGED <<accounts, txns, nextAcc, ops, invoices, res, caller>>

\* session.abortTransaction() and session.endSession(): staged writes are
\* dropped.  After a commitTransaction() that threw, abortTransaction()
\* throws in its turn ("Cannot call abortTransaction after calling
\* commitTransaction"): the catch block is left by the exception, before
\* session.endSession() and before res.status(500), and the handler's
\* promise rejects
Abort(r) ==
    /\ req[r].pc = "abort"
    /\ req' = [req EXCEPT ![r] =
         IF @.sess = "commitFailed"
         THEN [@ EXCEPT !.pc = "rejected", !.status = 0]
         ELSE [@ EXCEPT !.sess = "aborted", !.pc = "respond"]]
    /\ UNCHANGED <<accounts, txns, nextAcc, ops, invoices, res, caller>>

\* DELETE /deletetransaction/:id up to the answer of Transaction.findById
SoftDeleteFind(r, id) ==
    /\ Free(r)
    /\ req' = [req EXCEPT ![r] =
         IF TransactionMissing(id)
         THEN Reply(Begin("softDeleteTransaction", id, Undefined), 404)
         ELSE [Begin("softDeleteTransaction", id, Undefined) EXCEPT
                 !.pc = "sd_save"]]
    /\ ops' = ops + 1
    /\ UNCHANGED <<accounts, txns, nextAcc, invoices, res>>

\* the document after transaction.deleted = true
MarkDeleted(doc) == [doc EXCEPT !.deleted = TRUE]

\* faulty variant: the handler also takes the transaction's effect back from the
\* owning account
SoftDeleteSaveReversing(r) ==
    LET t == req[r].id
        a == txns[t].account
    IN
    /\ req[r].pc = "sd_save"
    /\ ~Locked(r, TxnKey(t))
    /\ txns' = [txns EXCEPT ![t] = MarkDeleted(@)]
    /\ accounts' = IF AccountExists(a)
                   THEN [accounts EXCEPT ![a].amount =
                           IF IsCredit(txns[t].type)
                           THEN @ - txns[t].total ELSE @ + txns[t].total]
                   ELSE accounts
    /\ req' = [Published(req, r, {TxnKey(t)}) EXCEPT ![r] = Reply(@, 200)]
    /\ UNCHANGED <<nextAcc, ops, invoices, res, caller>>

\* transaction.save() of softDeleteTransaction
SoftDeleteSave(r) ==
    /\ req[r].pc = "sd_save"
    /\ ~Locked(r, TxnKey(req[r].id))
    /\ txns' = [txns EXCEPT ![req[r].id] = MarkDeleted(@)]
    /\ req' = [Published(req, r, {TxnKey(req[r].id)}) EXCEPT
                 ![r] = Reply(@, 200)]
    /\ UNCHANGED <<accounts, nextAcc, ops, invoices, res, caller>>

\* res.json(...): the request is over
Respond(r) ==
    /\ req[r].pc = "respond"
    /\ req' = [req EXCEPT ![r] = Idle]
    /\ UNCHANGED <<accounts, txns, nextAcc, ops, invoices, res, caller>>

(* --------------------------- invoice handlers -------------------------- *)
\* x || d for a number that may be absent
NumOr(x, d) == IF TruthyNum(x) THEN Val(x) ELSE d

\* a number field of an item as the handler or the client left it
Num(x) == IF Defined(x) /\ ~IsNaN(x) THEN Val(x) ELSE 0

\* the item POST /createinvoice builds: arithmetic on an absent price,
\* quantity or tax_rate gives NaN
CreateItem(item) ==
    LET nan == ~Defined(item.price) \/ ~Defined(item.quantity)
               \/ ~Defined(item.tax_rate)
        taxAmount == IF nan THEN NaN
                     ELSE Some((Val(item.price) * Val(item.quantity)
                                  * Val(item.tax_rate)) \div 100)
        totalPrice == IF nan THEN NaN
                      ELSE Some(Val(item.price) * Val(item.quantity)
                                  + Val(taxAmount))
    IN  [quantity |-> item.quantity, price |-> item.price,
         tax_rate |-> item.tax_rate, tax_amount |-> taxAmount,
         total |-> totalPrice]

\* the item PUT /update_invoice/:id builds
UpdateItem(item) ==
    LET price == NumOr(item.price, 0)
        quantity == NumOr(item.quantity, 0)
        taxRate == IF Defined(item.tax_rate) THEN Val(item.tax_rate) ELSE 18
        itemTotal == price * quantity
        taxAmount == (itemTotal * taxRate) \div 100
    IN  [quantity |-> item.quantity, price |-> item.price,
         tax_rate |-> item.tax_rate, tax_amount |-> Some(taxAmount),
         total |-> Some(itemTotal + taxAmount)]

\* an item of a request body assigned as it came
RawItem(item) ==
    [quantity |-> item.quantity, price |-> item.price,
     tax_rate |-> item.tax_rate, tax_amount |-> Undefined,
     total |-> Undefined]

\* validation of an item subdocument: quantity and price are required and
\* NaN does not cast to Number
ItemValid(it) ==
    /\ Defined(it.quantity) /\ Defined(it.price)
    /\ ~IsNaN(it.tax_amount) /\ ~IsNaN(it.total)

\* the item subdocument mongoose builds: tax_rate defaults to 18
ItemDoc(it) ==
    [quantity |-> Val(it.quantity), price |-> Val(it.price),
     tax_rate |-> IF Defined(it.tax_rate) THEN Val(it.tax_rate) ELSE 18,
     tax_amount |-> Num(it.tax_amount), total |-> Num(it.total)]

\* the body of items.forEach in InvoiceSchema.pre("save")
PreSaveItem(doc) ==
    LET tax_rate == IF doc.tax_rate # 0 THEN doc.tax_rate ELSE 18
        itemTotal == doc.quantity * doc.price
        taxAmount == (itemTotal * tax_rate) \div 100
    IN  [quantity |-> doc.quantity, price |-> doc.price,
         tax_rate |-> tax_rate, tax_amount |-> taxAmount,
         total |-> itemTotal + taxAmount]

RECURSIVE SumBase(_)
\* subTotal += itemTotal over the items
SumBase(items) ==
    IF items = <<>> THEN 0
    ELSE Head(items).quantity * Head(items).price + SumBase(Tail(items))

RECURSIVE SumTax(_)
\* taxTotal += taxAmount over the items
SumTax(items) ==
    IF items = <<>> THEN 0
    ELSE Head(items).tax_amount + SumTax(Tail(items))

\* faulty variant: the hook prices the items again and leaves the three
\* totals as the handler set them
PreSaveItemsOnly(invoice) ==
    [invoice EXCEPT
       !.items = [i \in DOMAIN invoice.items |-> PreSaveItem(invoice.items[i])]]

\* InvoiceSchema.pre("save"): every item and the three totals are priced
\* again from quantity, price and tax_rate
PreSave(invoice) ==
    LET items == [i \in DOMAIN invoice.items |-> PreSaveItem(invoice.items[i])]
        subTotal == SumBase(items)
        taxTotal == SumTax(items)
    IN  [invoice EXCEPT !.items = items, !.subTotal = subTotal,
                        !.taxTotal = taxTotal,
                        !.grandTotal = subTotal + taxTotal]

InvoiceExists(id) == invoices[id] # NoDoc
NextInvId == Cardinality({i \in InvIds : InvoiceExists(i)}) + 1

\* the unique index on invoiceNumber: another invoice carries the number
NumberTaken(id, number) ==
    \E i \in InvIds \ {id} :
        InvoiceExists(i) /\ invoices[i].invoiceNumber = number

\* what a one-step handler answered; the body of a failed request is not
\* kept
Answer(op, status, id, body) ==
    [op |-> op, status |-> status, id |-> id,
     body |-> IF status >= 400 THEN Undefined ELSE body, out |-> Undefined]

\* document validation before the save: required paths, the status enum
\* and the item subdocuments
InvoiceValid(number, name, status, items) ==
    /\ Defined(number) /\ Defined(name)
    /\ status \in {"Pending", "Paid"}
    /\ \A i \in DOMAIN items : ItemValid(items[i])

\* POST /createinvoice for a caller whose token carries `user`
CreateInvoice(body, user) ==
    LET built == [i \in DOMAIN Val(body.items) |->
                    CreateItem(Val(body.items)[i])]
        docs == [i \in DOMAIN built |-> ItemDoc(built[i])]
        status ==
            IF ~Defined(body.items) THEN 500
            ELSE IF ~InvoiceValid(body.invoiceNumber, body.customerName,
                                  "Pending", built) THEN 500
            ELSE IF NumberTaken(0, Val(body.invoiceNumber)) THEN 500
            ELSE 201
    IN
    /\ NextInvId <= MaxInvoices
    /\ IF status = 201
       THEN /\ invoices' = [invoices EXCEPT ![NextInvId] =
                 PreSave([invoiceNumber |-> Val(body.invoiceNumber),
                          customerName |-> Val(body.customerName),
                          items |-> docs,
                          subTotal |-> SumBase(docs),
                          taxTotal |-> SumTax(docs),
                          grandTotal |-> SumBase(docs) + SumTax(docs),
                          status |-> "Pending",
                          createdBy |-> user])]
            /\ res' = Answer("createInvoice", 201, NextInvId, body)
       ELSE /\ res' = Answer("createInvoice", status, 0, body)
            /\ UNCHANGED invoices
    /\ ops' = ops + 1
    /\ UNCHANGED <<accounts, txns, nextAcc, req>>

\* the invoice after Object.assign(invoice, updates) of
\* PUT /update_invoice/:id: only the allow-listed fields of the body
\* are taken
AssignAllowed(invoice, body) ==
    LET items == IF ~Defined(body.items) THEN invoice.items
                 ELSE IF Len(Val(body.items)) > 0
                 THEN [i \in DOMAIN Val(body.items) |->
                         UpdateItem(Val(body.items)[i])]
                 ELSE <<>>
    IN  [invoice EXCEPT
           !.customerName = IF Defined(body.customerName)
                            THEN Val(body.customerName) ELSE @,
           !.status = IF Defined(body.status) THEN Val(body.status) ELSE @,
           !.items = items]

\* the invoice after Object.assign(invoice, req.body) of the earlier
\* PUT /:id: every field of the body is taken
AssignBody(invoice, body) ==
    [AssignAllowed(invoice, [body EXCEPT !.items = Undefined]) EXCEPT
       !.items = IF Defined(body.items)
                 THEN [i \in DOMAIN Val(body.items) |->
                         RawItem(Val(body.items)[i])]
                 ELSE @,
       !.subTotal = IF Defined(body.subTotal) THEN Val(body.subTotal) ELSE @,
       !.invoiceNumber = IF Defined(body.invoiceNumber)
                         THEN Val(body.invoiceNumber) ELSE @,
       !.createdBy = IF Defined(body.createdBy)
                     THEN Val(body.createdBy) ELSE @]

\* invoice.save() of an update: validation, the pre-save hook, the write;
\* itemsSet tells that `assigned` carries the items of the body, which are
\* cast to subdocuments, and not the stored ones
SaveInvoice(op, id, body, assigned, itemsSet) ==
    LET valid ==
            /\ assigned.status \in {"Pending", "Paid"}
            /\ itemsSet => \A i \in DOMAIN assigned.items :
                               ItemValid(assigned.items[i])
        docs == IF itemsSet
                THEN [i \in DOMAIN assigned.items |-> ItemDoc(assigned.items[i])]
                ELSE assigned.items
    IN  IF ~valid \/ NumberTaken(id, assigned.invoiceNumber)
        THEN /\ res' = Answer(op, 500, id, body)
             /\ UNCHANGED invoices
        ELSE /\ invoices' = [invoices EXCEPT ![id] =
                               PreSave([assigned EXCEPT !.items = docs])]
             /\ res' = Answer(op, 200, id, body)

\* the allow-listed fields the body carries
Updates(body) ==
    {k \in {"customerName", "items", "status"} : Defined(body[k])}

\* PUT /update_invoice/:id
UpdateInvoice(id, body) ==
    /\ IF ~InvoiceExists(id)
       THEN /\ res' = Answer("updateInvoice", 404, id, body)
            /\ UNCHANGED invoices
       ELSE IF Updates(body) = {}
       THEN /\ res' = Answer("updateInvoice", 200, id, body)
            /\ UNCHANGED invoices
       ELSE SaveInvoice("updateInvoice", id, body,
                        AssignAllowed(invoices[id], body),
                        Defined(body.items))
    /\ ops' = ops + 1
    /\ UNCHANGED <<accounts, txns, nextAcc, req>>

\* the earlier PUT /:id
UpdateInvoiceEarlier(id, body) ==
    /\ IF ~InvoiceExists(id)
       THEN /\ res' = Answer("updateInvoiceEarlier", 404, id, body)
            /\ UNCHANGED invoices
       ELSE SaveInvoice("updateInvoiceEarlier", id, body,
                        AssignBody(invoices[id], body),
                        Defined(body.items))
    /\ ops' = ops + 1
    /\ UNCHANGED <<accounts, txns, nextAcc, req>>

(* ------------------------------- reports ------------------------------- *)
\* a <= b for dates <<year, month, day, hour>>
DateLE(a, b) ==
    \/ a[1] < b[1]
    \/ a[1] = b[1] /\ a[2] < b[2]
    \/ a[1] = b[1] /\ a[2] = b[2] /\ a[3] < b[3]
    \/ a[1] = b[1] /\ a[2] = b[2] /\ a[3] = b[3] /\ a[4] <= b[4]

\* the day new Date(year, month + 1, 0) falls on
LastDay(year, month) ==
    IF month \in {4, 6, 9, 11} THEN 30
    ELSE IF month # 2 THEN 31
    ELSE IF year % 4 = 0 /\ (year % 100 # 0 \/ year % 400 = 0) THEN 29
    ELSE 28

\* startDate and endDate of /profit-loss and /cash-flow: midnight of the
\* first and midnight of the last day of the month or of the year
WindowStart(query) ==
    LET year == IF Defined(query.year) THEN Val(query.year) ELSE Now[1]
    IN  IF Defined(query.month) THEN <<year, Val(query.month), 1, 0>>
        ELSE <<year, 1, 1, 0>>

WindowEnd(query) ==
    LET year == IF Defined(query.year) THEN Val(query.year) ELSE Now[1]
    IN  IF Defined(query.month)
        THEN <<year, Val(query.month), LastDay(year, Val(query.month)), 0>>
        ELSE <<year, 12, 31, 0>>

\* $match { type in kinds, date: { $gte: startDate, $lte: endDate } }
Matched(kinds, query) ==
    {t \in TxnIds :
        /\ TxnExists(t)
        /\ txns[t].type \in kinds
        /\ DateLE(WindowStart(query), txns[t].date)
        /\ DateLE(txns[t].date, WindowEnd(query))}

RECURSIVE SumAmount(_)
\* $group { total: { $sum: "$amount" } }
SumAmount(T) ==
    IF T = {} THEN 0
    ELSE LET t == CHOOSE x \in T : TRUE
         IN  txns[t].amount + SumAmount(T \ {t})

\* the answer of a report; reports are read-only and are served while no
\* other request is under way
Report(op, query, out) ==
    /\ \A r \in Reqs : req[r].pc = "idle"
    /\ res' = [op |-> op, status |-> 200, id |-> 0, body |-> query, out |-> out]
    /\ UNCHANGED <<accounts, txns, nextAcc, req, ops, invoices>>

\* GET /profit-loss
ProfitLoss(query) ==
    LET income == SumAmount(Matched({"Income"}, query))
        expenses == SumAmount(Matched({"Expense"}, query))
        profitOrLossAmount == income - expenses
    IN  Report("profitAndLoss", query,
               [totalIncome |-> income, totalExpense |-> expenses,
                netProfitOrLoss |-> profitOrLossAmount,
                status |-> IF profitOrLossAmount > 0 THEN "Profit"
                           ELSE IF profitOrLossAmount < 0 THEN "Loss"
                           ELSE "Break-even"])

\* GET /cash-flow
CashFlow(query) ==
    LET cashInflow == SumAmount(Matched({"Income"}, query))
        cashOutflow == SumAmount(Matched({"Expense"}, query))
        financing == SumAmount(Matched({"Loan", "Investment"}, query))
    IN  Report("cashFlow", query,
               [totalCashInflow |-> cashInflow,
                totalCashOutflow |-> cashOutflow,
                financingActivities |-> financing,
                netCashFlow |-> cashInflow - cashOutflow])

\* the values of Account.type that the balance sheet reads
AccountTypes == {"Asset", "Liability"}

RECURSIVE SumBalances(_)
\* $group { total: { $sum: "$amount" } } over accounts
SumBalances(A) ==
    IF A = {} THEN 0
    ELSE LET a == CHOOSE x \in A : TRUE
         IN  accounts[a].amount + SumBalances(A \ {a})

\* GET /balance-sheet; types is the stored Account.type of every account,
\* which the client chose when it created or updated the account
BalanceSheet(types) ==
    LET assets == SumBalances({a \in AccIds :
                     AccountExists(a) /\ types[a] = "Asset"})
        liabilities == SumBalances({a \in AccIds :
                     AccountExists(a) /\ types[a] = "Liability"})
    IN  Report("balanceSheet", Undefined,
               [totalAssets |-> assets, totalLiabilities |-> liabilities,
                totalEquity |-> assets - liabilities])

\* Transaction.find(filter) of /tax_report: createdAt is stamped by
\* { timestamps: true }; paymentMethod is not a path of the schema, so with
\* strictQuery the condition is dropped and without it no document matches
Found(query, strictQuery) ==
    {t \in TxnIds :
        /\ TxnExists(t)
        /\ (Defined(query.startDate) /\ Defined(query.endDate))
             => /\ DateLE(Val(query.startDate), Now)
                /\ DateLE(Now, Val(query.endDate))
        /\ Defined(query.paymentMethod) => strictQuery}

RECURSIVE SumTaxAmount(_)
\* gstOnSales += txn.tax_amount, gstOnPurchases += txn.tax_amount
SumTaxAmount(T) ==
    IF T = {} THEN 0
    ELSE LET t == CHOOSE x \in T : TRUE
         IN  txns[t].tax_amount + SumTaxAmount(T \ {t})

\* GET /tax_report
TaxReport(query) ==
    \E strictQuery \in (IF Defined(query.paymentMethod) THEN BOOLEAN ELSE {TRUE}) :
        LET transactions == Found(query, strictQuery)
            gstOnSales ==
                SumTaxAmount({t \in transactions : txns[t].type = "Income"})
            gstOnPurchases ==
                SumTaxAmount({t \in transactions : txns[t].type = "Expense"})
        IN  Report("taxReport", query,
                   [gstOnSales |-> gstOnSales, gstOnPurchases |-> gstOnPurchases,
                    netGST |-> gstOnSales - gstOnPurchases])

(* ---------------------------- authorization ---------------------------- *)
\* faulty variant: any token that verifies passes, the role is not looked at
AuthMiddlewareAnyRole(allowedRoles, cred) ==
    IF cred \in {"none", "invalid"} THEN 401 ELSE 0

\* authMiddleware(allowedRoles): the status it answers, 0 when it calls
\* next()
AuthMiddleware(allowedRoles, cred) ==
    IF cred = "none" THEN 401
    ELSE IF cred = "invalid" THEN 401
    ELSE IF cred \notin allowedRoles THEN 403
    ELSE 0

\* the role lists of the routes
AdminAccountant == {"admin", "accountant"}
AdminOnly == {"admin"}

\* the middleware answered and the handler is not run
Denied(op, status) ==
    /\ res' = Answer(op, status, 0, Undefined)
    /\ ops' = ops + 1
    /\ UNCHANGED <<accounts, txns, nextAcc, req, invoices>>

\* a request with credential cred reaches a route guarded by
\* authMiddleware(allowedRoles)
Guarded(allowedRoles, cred, op, handler) ==
    /\ caller' = cred
    /\ IF AuthMiddleware(allowedRoles, cred) = 0
       THEN handler
       ELSE Free(1) /\ Denied(op, AuthMiddleware(allowedRoles, cred))

(* ------------------------------- inputs -------------------------------- *)
Opt(S) == {Undefined} \cup {Some(v) : v \in S}

\* request bodies of the serial specification
CreateAccountBodies == [name : Opt(Names), amount : Opt({0, 500})]
UpdateAccountBodies == [name : Opt(Names), amount : Opt({0, 500})]
CreateTransactionBodies ==
    [type : Types, amount : Opt({0, 1000, 2000}), tax_rate : Opt({0, 10, -10}),
     account : AccIds, date : {Undefined}]
EditTransactionBodies ==
    [type : Opt(Types), amount : Opt({1000, 2000}), tax_rate : Opt({0, 10, -10}),
     date : {Undefined}]

\* request bodies of the concurrent specification
\* req.body of a rename
RenameBodies == [name : {Some(n) : n \in Names}, amount : {Undefined}]
ConcCreateAccountBodies == [name : Opt(Names), amount : {Some(0)}]
ConcUpdateAccountBodies == [name : {Undefined}, amount : {Some(500)}]
ConcCreateTransactionBodies ==
    [type : {"Income", "Expense"}, amount : {Some(1000)}, tax_rate : {Some(10)},
     account : AccIds, date : {Undefined}]
ConcEditTransactionBodies ==
    {[type |-> Undefined, amount |-> Some(2000), tax_rate |-> Some(10),
      date |-> Undefined],
     [type |-> Some("Expense"), amount |-> Undefined, tax_rate |-> Undefined,
      date |-> Undefined],
     [type |-> Undefined, amount |-> Undefined, tax_rate |-> Undefined,
      date |-> Undefined]}

\* request bodies with bases and rates of either sign
SignedCreateBodies ==
    [type : {"Income", "Expense"}, amount : {Some(-1000), Some(1000)},
     tax_rate : Opt({-10, 0, 10}), account : AccIds, date : {Undefined}]

\* request bodies of the invoice specification
ItemBodies == [quantity : {Some(2)}, price : Opt({50}), tax_rate : Opt({0, 18})]
ItemLists ==
    {<<>>} \cup {<<a>> : a \in ItemBodies}
    \cup {<<a, [quantity |-> Some(1), price |-> Some(100),
                tax_rate |-> Some(10)]>> : a \in ItemBodies}
CreateInvoiceBodies ==
    [invoiceNumber : Opt({"INV-1", "INV-2"}), customerName : {Some("Ann")},
     items : Opt(ItemLists)]
UpdateInvoiceBodies ==
    [customerName : {Undefined}, items : Opt(ItemLists), status : {Undefined},
     subTotal : {Undefined}, invoiceNumber : {Undefined},
     createdBy : {Undefined}]
    \cup
    [customerName : Opt({"Bo"}), items : {Undefined}, status : Opt({"Paid", "Void"}),
     subTotal : Opt({999}), invoiceNumber : Opt({"INV-2"}),
     createdBy : Opt({"staff"})]

\* request bodies and queries of the report specification
Dates == {<<2026, 10, 15, 12>>, <<2026, 10, 31, 12>>}
ReportCreateBodies ==
    [type : {"Income", "Expense", "Loan"}, amount : {Some(1000), Some(400)},
     tax_rate : {Some(10)}, account : {1}, date : Opt(Dates)]
ReportEditBodies ==
    [type : {Undefined}, amount : Opt({2000}), tax_rate : Opt({10}),
     date : Opt({<<2026, 10, 15, 12>>})]
WindowQueries == [year : Opt({2025}), month : Opt({10, 11})]
TaxQueries ==
    [startDate : {Undefined, Some(<<2026, 10, 1, 0>>), Some(<<2026, 1, 1, 0>>)},
     endDate : {Undefined, Some(<<2026, 12, 31, 0>>), Some(<<2026, 2, 28, 0>>)},
     paymentMethod : Opt({"Cash"})]

(* --------------------------- specifications ---------------------------- *)
\* the steps of a request that is under way
Step(r) ==
    \/ CreateAccountSave(r)
    \/ UpdateAccountSave(r)
    \/ DeleteAccountCheck(r)
    \/ DeleteAccountDelete(r)
    \/ CreateTransactionSaveTxn(r)
    \/ CreateTransactionSaveAcc(r)
    \/ EditTransactionSaveTxn(r)
    \/ EditTransactionSaveAcc(r)
    \/ Commit(r)
    \/ Throw(r)
    \/ Abort(r)
    \/ SoftDeleteSave(r)
    \/ Respond(r)

\* a new request arrives, while fewer than `budget` have
Arrive(budget) == ops < budget

\* what the token of a request carries: no token, a token that does not
\* verify, or the role of a verified token
Creds == {"none", "invalid", "staff", "accountant", "admin"}

\* the request carries an admin's token, which every route lets through
ByAdmin == caller' = "admin"

\* concurrent requests
Next ==
    \/ \E r \in Reqs, body \in ConcCreateAccountBodies :
         Arrive(MaxConcOps) /\ CreateAccountFind(r, body) /\ ByAdmin
    \/ \E r \in Reqs, id \in AccIds, body \in ConcUpdateAccountBodies :
         Arrive(MaxConcOps) /\ UpdateAccountFind(r, id, body) /\ ByAdmin
    \/ \E r \in Reqs, id \in AccIds :
         Arrive(MaxConcOps) /\ DeleteAccountFind(r, id) /\ ByAdmin
    \/ \E r \in Reqs, body \in ConcCreateTransactionBodies :
         Arrive(MaxConcOps) /\ CreateTransactionFind(r, body) /\ ByAdmin
    \/ \E r \in Reqs, id \in TxnIds, body \in ConcEditTransactionBodies :
         Arrive(MaxConcOps) /\ EditTransactionFind(r, id, body) /\ ByAdmin
    \/ \E r \in Reqs, id \in TxnIds :
         Arrive(MaxConcOps) /\ SoftDeleteFind(r, id) /\ ByAdmin
    \/ \E r \in Reqs : Step(r)

Spec == Init /\ [][Next]_vars

\* the database after POST /accounts { name: "Cash", amount: 0 } was served
InitSerial ==
    /\ accounts = [a \in AccIds |->
                     IF a = 1 THEN [name |-> "Cash", amount |-> 0] ELSE NoDoc]
    /\ txns = [t \in TxnIds |-> NoDoc]
    /\ nextAcc = 2
    /\ req = [r \in Reqs |-> Idle]
    /\ ops = 0
    /\ invoices = [i \in InvIds |-> NoDoc]
    /\ res = NoRes
    /\ caller = "none"

\* one request at a time, over the wide input sets
NextSerial ==
    \/ \E body \in CreateAccountBodies :
         Arrive(MaxOps) /\ CreateAccountFind(1, body) /\ ByAdmin
    \/ \E id \in AccIds, body \in UpdateAccountBodies :
         Arrive(MaxOps) /\ UpdateAccountFind(1, id, body) /\ ByAdmin
    \/ \E id \in AccIds :
         Arrive(MaxOps) /\ DeleteAccountFind(1, id) /\ ByAdmin
    \/ \E body \in CreateTransactionBodies :
         Arrive(MaxOps) /\ CreateTransactionFind(1, body) /\ ByAdmin
    \/ \E id \in TxnIds, body \in EditTransactionBodies :
         Arrive(MaxOps) /\ EditTransactionFind(1, id, body) /\ ByAdmin
    \/ \E id \in TxnIds :
         Arrive(MaxOps) /\ SoftDeleteFind(1, id) /\ ByAdmin
    \/ Step(1)

SpecSerial == InitSerial /\ [][NextSerial]_vars

\* the database after POST /accounts was served for "Cash" with amount 0
\* and for "Bank" with amount 500
InitLedger ==
    /\ accounts = [a \in AccIds |->
                     IF a = 1 THEN [name |-> "Cash", amount |-> 0]
                     ELSE IF a = 2 THEN [name |-> "Bank", amount |-> 500]
                     ELSE NoDoc]
    /\ txns = [t \in TxnIds |-> NoDoc]
    /\ nextAcc = 3
    /\ req = [r \in Reqs |-> Idle]
    /\ ops = 0
    /\ invoices = [i \in InvIds |-> NoDoc]
    /\ res = NoRes
    /\ caller = "none"

\* one request at a time, transaction requests only
NextLedger ==
    \/ \E body \in CreateTransactionBodies :
         Arrive(MaxOps) /\ CreateTransactionFind(1, body) /\ ByAdmin
    \/ \E id \in TxnIds, body \in EditTransactionBodies :
         Arrive(MaxOps) /\ EditTransactionFind(1, id, body) /\ ByAdmin
    \/ \E id \in TxnIds :
         Arrive(MaxOps) /\ SoftDeleteFind(1, id) /\ ByAdmin
    \/ CreateTransactionSaveTxn(1)
    \/ CreateTransactionSaveAcc(1)
    \/ EditTransactionSaveTxn(1)
    \/ EditTransactionSaveAcc(1)
    \/ Commit(1)
    \/ Throw(1)
    \/ Abort(1)
    \/ SoftDeleteSave(1)
    \/ Respond(1)

SpecLedger == InitLedger /\ [][NextLedger]_vars

\* the invoice routes, one request at a time
NextInvoice ==
    \/ \E body \in CreateInvoiceBodies :
         Arrive(MaxOps) /\ CreateInvoice(body, "admin") /\ ByAdmin
    \/ \E id \in InvIds, body \in UpdateInvoiceBodies :
         Arrive(MaxOps) /\ UpdateInvoice(id, body) /\ ByAdmin
    \/ \E id \in InvIds, body \in UpdateInvoiceBodies :
         Arrive(MaxOps) /\ UpdateInvoiceEarlier(id, body) /\ ByAdmin

SpecInvoice == Init /\ [][NextInvoice]_vars

\* the transaction routes and the reports, one request at a time
NextReports ==
    \/ \E body \in ReportCreateBodies :
         Arrive(MaxOps) /\ CreateTransactionFind(1, body) /\ ByAdmin
    \/ \E id \in TxnIds, body \in ReportEditBodies :
         Arrive(MaxOps) /\ EditTransactionFind(1, id, body) /\ ByAdmin
    \/ \E id \in TxnIds :
         Arrive(MaxOps) /\ SoftDeleteFind(1, id) /\ ByAdmin
    \/ \E query \in WindowQueries : ProfitLoss(query) /\ ByAdmin
    \/ \E query \in WindowQueries : CashFlow(query) /\ ByAdmin
    \/ \E query \in TaxQueries : TaxReport(query) /\ UNCHANGED caller
    \/ CreateTransactionSaveTxn(1)
    \/ CreateTransactionSaveAcc(1)
    \/ EditTransactionSaveTxn(1)
    \/ EditTransactionSaveAcc(1)
    \/ Commit(1)
    \/ Throw(1)
    \/ Abort(1)
    \/ SoftDeleteSave(1)
    \/ Respond(1)

SpecReports == InitLedger /\ [][NextReports]_vars

\* the mutating routes behind their middleware, one request at a time
NextAuth ==
    \/ \E cred \in Creds, body \in ConcCreateAccountBodies :
         Arrive(MaxOps) /\ Guarded(AdminAccountant, cred, "createAccount",
                                   CreateAccountFind(1, body))
    \/ \E cred \in Creds, id \in AccIds, body \in ConcUpdateAccountBodies :
         Arrive(MaxOps) /\ Guarded(AdminAccountant, cred, "updateAccount",
                                   UpdateAccountFind(1, id, body))
    \/ \E cred \in Creds, id \in AccIds :
         Arrive(MaxOps) /\ Guarded(AdminOnly, cred, "deleteAccount",
                                   DeleteAccountFind(1, id))
    \/ \E cred \in Creds, body \in ConcCreateTransactionBodies :
         Arrive(MaxOps) /\ Guarded(AdminAccountant, cred, "createTransaction",
                                   CreateTransactionFind(1, body))
    \/ \E cred \in Creds, id \in TxnIds, body \in ConcEditTransactionBodies :
         Arrive(MaxOps) /\ Guarded(AdminAccountant, cred, "editTransaction",
                                   EditTransactionFind(1, id, body))
    \/ \E cred \in Creds, id \in TxnIds :
         Arrive(MaxOps) /\ Guarded(AdminOnly, cred, "softDeleteTransaction",
                                   SoftDeleteFind(1, id))
    \/ \E cred \in Creds, body \in CreateInvoiceBodies :
         Arrive(MaxOps) /\ Guarded(AdminAccountant, cred, "createInvoice",
                                   Free(1) /\ CreateInvoice(body, cred))
    \/ \E cred \in Creds, id \in InvIds, body \in UpdateInvoiceBodies :
         Arrive(MaxOps) /\ Guarded(AdminAccountant, cred, "updateInvoice",
                                   Free(1) /\ UpdateInvoice(id, body))
    \/ Step(1)

SpecAuth == InitSerial /\ [][NextAuth]_vars

\* the account routes served concurrently, with renames
NextNames ==
    \/ \E r \in Reqs, body \in ConcCreateAccountBodies :
         Arrive(MaxConcOps) /\ CreateAccountFind(r, body) /\ ByAdmin
    \/ \E r \in Reqs, id \in AccIds, body \in RenameBodies :
         Arrive(MaxConcOps) /\ UpdateAccountFind(r, id, body) /\ ByAdmin
    \/ \E r \in Reqs, id \in AccIds :
         Arrive(MaxConcOps) /\ DeleteAccountFind(r, id) /\ ByAdmin
    \/ \E r \in Reqs : CreateAccountSave(r)
    \/ \E r \in Reqs : UpdateAccountSave(r)
    \/ \E r \in Reqs : DeleteAccountCheck(r)
    \/ \E r \in Reqs : DeleteAccountDelete(r)
    \/ \E r \in Reqs : Respond(r)

SpecNames == Init /\ [][NextNames]_vars

\* POST /transactions alone, one request at a time, over bases and rates
\* of either sign
NextTax ==
    \/ \E body \in SignedCreateBodies :
         Arrive(MaxOps) /\ CreateTransactionFind(1, body) /\ ByAdmin
    \/ CreateTransactionSaveTxn(1)
    \/ CreateTransactionSaveAcc(1)
    \/ Commit(1)
    \/ Throw(1)
    \/ Abort(1)
    \/ Respond(1)

SpecTax == InitSerial /\ [][NextTax]_vars

\* the report routes as they are mounted, each request with its
\* credential, after transactions an admin created; /tax_report is mounted
\* without authMiddleware
NextReportAuth ==
    \/ \E body \in ConcCreateTransactionBodies :
         Arrive(MaxOps) /\ CreateTransactionFind(1, body) /\ ByAdmin
    \/ \E cred \in Creds, query \in WindowQueries :
         Arrive(MaxOps) /\ Guarded(AdminAccountant, cred, "profitAndLoss",
                                   ProfitLoss(query))
    \/ \E cred \in Creds, types \in [AccIds -> AccountTypes] :
         Arrive(MaxOps) /\ Guarded(AdminAccountant, cred, "balanceSheet",
                                   BalanceSheet(types))
    \/ \E cred \in Creds, query \in WindowQueries :
         Arrive(MaxOps) /\ Guarded(AdminAccountant, cred, "cashFlow",
                                   CashFlow(query))
    \/ \E cred \in Creds, query \in TaxQueries :
         Arrive(MaxOps) /\ caller' = cred /\ TaxReport(query)
    \/ CreateTransactionSaveTxn(1)
    \/ CreateTransactionSaveAcc(1)
    \/ Commit(1)
    \/ Throw(1)
    \/ Abort(1)
    \/ Respond(1)

SpecReportAuth == InitLedger /\ [][NextReportAuth]_vars

(* ------------------------------- claims -------------------------------- *)
\* request r takes the step
Acts(r) == req[r].pc # req'[r].pc

\* r is serving a request of the transaction manager's atomic unit
InUnit(rq) == rq.op \in {"createTransaction", "editTransaction"}

\* the step is r's commitTransaction
Commits(r) == Acts(r) /\ req[r].pc = "commit" /\ req'[r].sess = "committed"

LedgerUnchanged == accounts' = accounts /\ txns' = txns

\* C1 (as claimed): every stored transaction has
\* total = amount + amount * tax_rate / 100 and
\* tax_amount = amount * tax_rate / 100 (both sides times 100)
C1_TransactionTotal ==
    \A t \in TxnIds :
        TxnExists(t) =>
            /\ 100 * txns[t].total
                 = 100 * txns[t].amount + txns[t].amount * txns[t].tax_rate
            /\ 100 * txns[t].tax_amount = txns[t].amount * txns[t].tax_rate

RECURSIVE SumSigned(_)
\* the sum of +total (Income, Loan, Investment) and -total (Expense) over
\* the stored transactions in T
SumSigned(T) ==
    IF T = {} THEN 0
    ELSE LET t == CHOOSE x \in T : TRUE
         IN  (IF txns[t].type \in {"Income", "Loan", "Investment"}
              THEN txns[t].total ELSE 0 - txns[t].total)
             + SumSigned(T \ {t})

\* the balance an account of InitLedger started with
OpeningBalance(a) == IF accounts[a].name = "Cash" THEN 0 ELSE 500

\* C2 (as claimed): with no request under way, a balance is the opening
\* balance plus the signed totals of the transactions created against the
\* account, soft-deleted ones included
C2_BalanceIsSumOfTotals ==
    (\A r \in Reqs : req[r].pc = "idle") =>
        \A a \in AccIds :
            AccountExists(a) =>
                accounts[a].amount
                  = OpeningBalance(a)
                    + SumSigned({t \in TxnIds :
                                   TxnExists(t) /\ txns[t].account = a})

\* C3 (as claimed): a committed edit that supplies amount B and leaves the
\* kind alone moves the balance by the new total B + B * tax_rate / 100
\* minus the old stored total, added for Income, Loan and Investment and
\* subtracted for Expense (times 100); and Income 1000 at 10% on balance
\* 1100 edited to 2000 at 10% ends with tax 200, total 2200, balance 2200
C3_EditMovesBalanceByTotalDifference ==
    [][\A r \in Reqs :
         (/\ Commits(r)
          /\ req[r].op = "editTransaction"
          /\ Defined(req[r].body.amount)
          /\ txns'[req[r].id].type = txns[req[r].id].type)
         => LET old == txns[req[r].id]
                new == txns'[req[r].id]
                a == old.account
                B == Val(req[r].body.amount)
                sign == IF old.type \in {"Income", "Loan", "Investment"}
                        THEN 1 ELSE -1
            IN  /\ 100 * (accounts'[a].amount - accounts[a].amount)
                     = sign * (100 * B + B * new.tax_rate - 100 * old.total)
                /\ (/\ old.type = "Income" /\ old.amount = 1000
                    /\ old.tax_rate = 10 /\ accounts[a].amount = 1100
                    /\ B = 2000 /\ new.tax_rate = 10)
                   => /\ new.tax_amount = 200
                      /\ new.total = 2200
                      /\ accounts'[a].amount = 2200
      ]_vars

\* the tax rate a createTransaction body supplies, 0 when it supplies none
SuppliedRate(body) == IF Defined(body.tax_rate) THEN Val(body.tax_rate) ELSE 0

\* what a committing createTransaction leaves behind, given the tax amount
\* (times 100) its record must carry: one new record built from the body,
\* total = amount + tax_amount, the owning balance moved by +total for
\* Income, Loan, Investment and by -total for Expense, nothing else changed
CreateLeaves(r, tax100) ==
    LET body == req[r].body
        t == req'[r].id
        doc == txns'[t]
    IN  /\ ~TxnExists(t)
        /\ txns' = [txns EXCEPT ![t] = doc]
        /\ doc.type = body.type
        /\ doc.amount = Val(body.amount)
        /\ doc.account = body.account
        /\ doc.tax_rate = SuppliedRate(body)
        /\ 100 * doc.tax_amount = tax100
        /\ doc.total = doc.amount + doc.tax_amount
        /\ accounts' = [accounts EXCEPT ![body.account].amount =
                          IF body.type \in {"Income", "Loan", "Investment"}
                          THEN @ + doc.total ELSE @ - doc.total]

StagedVisible(r) ==
    LET rq == req[r]
        a == rq.acct.id
    IN  /\ rq.wroteTxn /\ rq.op = "createTransaction" =>
               /\ ~TxnExists(req'[r].id)
               /\ txns' = [txns EXCEPT ![req'[r].id] = rq.txn]
        /\ rq.wroteTxn /\ rq.op = "editTransaction" =>
               /\ txns'[rq.id].type = rq.txn.type
               /\ txns'[rq.id].amount = rq.txn.amount
               /\ txns'[rq.id].tax_rate = rq.txn.tax_rate
               /\ txns'[rq.id].tax_amount = rq.txn.tax_amount
               /\ \A t \in TxnIds \ {rq.id} : txns'[t] = txns[t]
        /\ ~rq.wroteTxn => txns' = txns
        /\ rq.wroteAcc =>
               /\ accounts'[a].amount = rq.acct.amount
               /\ \A b \in AccIds \ {a} : accounts'[b] = accounts[b]
        /\ ~rq.wroteAcc => accounts' = accounts

\* C5: createTransaction and editTransaction are all-or-nothing: a step of
\* such a request leaves every transaction record and every balance alone,
\* except its commit, which answers 200/201 and makes the record write and
\* the balance write visible in the same step; a request that failed
\* (status 400 and up) changes nothing afterwards and never committed
C5_AllOrNothing ==
    [][\A r \in Reqs :
         (Acts(r) /\ (InUnit(req[r]) \/ InUnit(req'[r])))
         => /\ \/ LedgerUnchanged
               \/ /\ Commits(r)
                  /\ req'[r].status \in {200, 201}
                  /\ StagedVisible(r)
            /\ req[r].status >= 400 => LedgerUnchanged /\ ~Commits(r)
            /\ req'[r].status >= 400 => req'[r].sess # "committed"
      ]_vars

\* a createTransaction failed after it had saved its record inside the
\* unit and before the balance was saved: no record is stored and the
\* balance it read is still the stored one
C5_Witness ==
    \E r \in Reqs :
        /\ req[r].op = "createTransaction" /\ req[r].status = 500
        /\ req[r].sess = "aborted"
        /\ req[r].wroteTxn /\ ~req[r].wroteAcc
        /\ \A t \in TxnIds : ~TxnExists(t)
        /\ AccountExists(req[r].acct.id)

\* C6: no balance write is lost: when a createTransaction or
\* editTransaction commits a balance write, the stored balance is still the
\* one the request read, so the committed balance is the latest committed
\* balance plus the request's signed delta and only that account changes; a
\* request whose read went stale never reaches its commit with a balance
\* write staged
C6_NoLostBalanceWrite ==
    [][\A r \in Reqs :
         (Acts(r) /\ InUnit(req[r]))
         => LET rq == req[r]
                a == rq.acct.id
            IN  /\ (Commits(r) /\ rq.wroteAcc) =>
                       /\ AccountExists(a)
                       /\ accounts[a].amount = rq.acct.read
                       /\ accounts'[a].amount - accounts[a].amount
                            = rq.acct.amount - rq.acct.read
                       /\ \A b \in AccIds \ {a} : accounts'[b] = accounts[b]
                /\ (rq.acct # NoDoc /\ AccKey(a) \in rq.stale /\ rq.sess = "open")
                       => accounts' = accounts
      ]_vars

\* two requests on the same account overlapped: one committed its balance
\* write, the other, whose read that commit made stale, failed with 500 and
\* the stored balance is the committed request's
C6_Witness ==
    \E r \in Reqs, q \in Reqs :
        /\ r # q
        /\ InUnit(req[r]) /\ req[r].sess = "committed" /\ req[r].wroteAcc
        /\ InUnit(req[q]) /\ req[q].status = 500
        /\ req[q].acct # NoDoc /\ req[q].acct.id = req[r].acct.id
        /\ AccKey(req[q].acct.id) \in req[q].stale
        /\ AccountExists(req[r].acct.id)
        /\ accounts[req[r].acct.id].amount = req[r].acct.amount

\* the step is the arrival of a request of kind op
Starts(r, op) == req[r].pc = "idle" /\ req'[r].op = op

\* C7: deleted is terminal: once the deleted flag of a transaction is true
\* its record never changes again, and an editTransaction or
\* softDeleteTransaction that arrives for a deleted or absent transaction
\* is answered 404 and neither it nor any later step of it changes a
\* transaction record or a balance
C7_DeletedIsTerminal ==
    [][/\ \A t \in TxnIds :
            (TxnExists(t) /\ txns[t].deleted) => txns'[t] = txns[t]
       /\ \A r \in Reqs :
            /\ (/\ Starts(r, "editTransaction") \/ Starts(r, "softDeleteTransaction")
                /\ ~TxnExists(req'[r].id) \/ txns[req'[r].id].deleted)
               => /\ req'[r].status = 404
                  /\ req'[r].pc \in {"abort", "respond"}
                  /\ LedgerUnchanged
            /\ (Acts(r) /\ req[r].status = 404) =>
                  /\ LedgerUnchanged
                  /\ req'[r].pc \in {"respond", "idle"}
                  /\ req'[r].pc = "respond" => req'[r].status = 404
      ]_vars

\* an editTransaction for a transaction that was soft-deleted before was
\* answered 404; the record still carries the flag and the balance still
\* carries the transaction's effect
C7_Witness ==
    \E r \in Reqs :
        /\ req[r].op = "editTransaction" /\ req[r].status = 404
        /\ req[r].pc = "respond"
        /\ TxnExists(req[r].id) /\ txns[req[r].id].deleted
        /\ AccountExists(txns[req[r].id].account)
        /\ accounts[txns[req[r].id].account].amount # 0

\* C8: a successful softDeleteTransaction changes only the deleted flag of
\* its transaction: the other fields of the record, every other record and
\* every balance are as before, also across the other steps of the request
C8_SoftDeleteFrame ==
    [][\A r \in Reqs :
         (Acts(r) /\ (req[r].op = "softDeleteTransaction"
                      \/ req'[r].op = "softDeleteTransaction"))
         => /\ accounts' = accounts
            /\ IF req[r].pc = "sd_save" /\ req'[r].status = 200
               THEN LET t == req[r].id
                    IN  /\ TxnExists(t)
                        /\ txns'[t].deleted
                        /\ txns'[t].type = txns[t].type
                        /\ txns'[t].amount = txns[t].amount
                        /\ txns'[t].tax_rate = txns[t].tax_rate
                        /\ txns'[t].tax_amount = txns[t].tax_amount
                        /\ txns'[t].total = txns[t].total
                        /\ txns'[t].account = txns[t].account
                        /\ \A u \in TxnIds \ {t} : txns'[u] = txns[u]
               ELSE txns' = txns
      ]_vars

\* a softDeleteTransaction succeeded: the record is flagged and the owning
\* account still carries the balance the transaction gave it
C8_Witness ==
    \E r \in Reqs :
        /\ req[r].op = "softDeleteTransaction" /\ req[r].status = 200
        /\ txns[req[r].id].deleted
        /\ txns[req[r].id].total = 1100
        /\ AccountExists(txns[req[r].id].account)
        /\ accounts[txns[req[r].id].account].amount = 1100

\* a transaction that is not soft-deleted references account a
LiveReference(a) ==
    \E t \in TxnIds : TxnExists(t) /\ ~txns[t].deleted /\ txns[t].account = a

\* C9: a deleteAccount that arrives for an absent id is answered 404; one
\* whose check finds a non-deleted transaction referencing the account is
\* answered 400; neither changes an account or a transaction, before or
\* after its answer; and a reference, once stored, stays
C9_DeleteAccountRefused ==
    [][/\ \A t \in TxnIds :
            TxnExists(t) => TxnExists(t)' /\ txns'[t].account = txns[t].account
       /\ \A r \in Reqs :
            /\ (Starts(r, "deleteAccount") /\ ~AccountExists(req'[r].id))
               => req'[r].status = 404 /\ req'[r].pc = "respond"
                  /\ LedgerUnchanged
            /\ (Starts(r, "deleteAccount") /\ LiveReference(req'[r].id))
               => LedgerUnchanged
            /\ (/\ Acts(r) /\ req[r].op = "deleteAccount"
                /\ req[r].pc = "da_check" /\ LiveReference(req[r].id))
               => req'[r].status = 400 /\ req'[r].pc = "respond"
                  /\ LedgerUnchanged
            /\ (/\ Acts(r) /\ req[r].op = "deleteAccount"
                /\ req[r].status \in {400, 404})
               => LedgerUnchanged /\ req'[r].pc = "idle"
      ]_vars

\* a deleteAccount was answered 400: the account still exists with the
\* balance its non-deleted transaction gave it
C9_Witness ==
    \E r \in Reqs :
        /\ req[r].op = "deleteAccount" /\ req[r].status = 400
        /\ AccountExists(req[r].id)
        /\ LiveReference(req[r].id)
        /\ accounts[req[r].id].amount = 1100

\* the balance of an account that exists before and after the step changed
BalanceChanged(a) ==
    /\ AccountExists(a) /\ AccountExists(a)'
    /\ accounts'[a].amount # accounts[a].amount

\* C10 (as claimed): the balance of an existing account changes only in a
\* step of a createTransaction or an editTransaction
C10_AsClaimed ==
    [][\A a \in AccIds :
         BalanceChanged(a) => \E r \in Reqs : Acts(r) /\ InUnit(req[r])
      ]_vars

\* C10 (amended): the balance of an existing account changes only in a step
\* of a createTransaction or an editTransaction, or in the save of an
\* updateAccount for that account whose body supplies amount, which sets
\* the balance to the supplied amount
C10_BalanceWriters ==
    [][\A a \in AccIds :
         BalanceChanged(a) =>
             \E r \in Reqs :
                 /\ Acts(r)
                 /\ \/ InUnit(req[r])
                    \/ /\ req[r].op = "updateAccount"
                       /\ req[r].id = a
                       /\ Defined(req[r].body.amount)
                       /\ accounts'[a].amount = Val(req[r].body.amount)
                       /\ req'[r].status = 200
      ]_vars

\* an updateAccount that supplied amount 500 for an account of balance 1100
\* was answered 200 and the balance is 500
C10_Witness ==
    \E r \in Reqs :
        /\ req[r].op = "updateAccount" /\ req[r].status = 200
        /\ req[r].acct.amount = 1100
        /\ req[r].body.amount = Some(500)
        /\ AccountExists(req[r].id)
        /\ accounts[req[r].id].amount = 500

RECURSIVE Total(_, _)
\* vals[1] + ... + vals[n]
Total(vals, n) == IF n = 0 THEN 0 ELSE Total(vals, n - 1) + vals[n]

\* C11: every stored invoice has subTotal = the sum of quantity * price
\* over its items, taxTotal = the sum of the items' tax_amount,
\* grandTotal = subTotal + taxTotal, and every item has
\* tax_amount = quantity * price * tax_rate / 100 (times 100) and
\* total = quantity * price + tax_amount; a created invoice with the one
\* item quantity 2, price 50, rate 18 carries 18, 118, 100, 18, 118
C11_InvoiceTotals ==
    /\ \A i \in InvIds :
         InvoiceExists(i) =>
             LET inv == invoices[i]
                 n == Len(inv.items)
                 base == [k \in 1..n |-> inv.items[k].quantity * inv.items[k].price]
                 tax == [k \in 1..n |-> inv.items[k].tax_amount]
             IN  /\ inv.subTotal = Total(base, n)
                 /\ inv.taxTotal = Total(tax, n)
                 /\ inv.grandTotal = inv.subTotal + inv.taxTotal
                 /\ \A k \in 1..n :
                      /\ 100 * inv.items[k].tax_amount
                           = base[k] * inv.items[k].tax_rate
                      /\ inv.items[k].total = base[k] + inv.items[k].tax_amount
    /\ (/\ res.op = "createInvoice" /\ res.status = 201
        /\ res.body.items = Some(<<[quantity |-> Some(2), price |-> Some(50),
                                    tax_rate |-> Some(18)]>>))
       => LET inv == invoices[res.id]
          IN  /\ inv.items[1].tax_amount = 18 /\ inv.items[1].total = 118
              /\ inv.subTotal = 100 /\ inv.taxTotal = 18
              /\ inv.grandTotal = 118

\* an update replaced the items of an invoice by an empty list: the
\* invoice has no items and its totals are 0
C11_Witness ==
    /\ res.op = "updateInvoice" /\ res.status = 200
    /\ res.body.items = Some(<<>>)
    /\ invoices[res.id].items = <<>>
    /\ invoices[res.id].grandTotal = 0
    /\ invoices[res.id].subTotal = 0

\* the step is served by an invoice update route, the current one or the
\* earlier one
UpdatesInvoice ==
    res' # res /\ res'.op \in {"updateInvoice", "updateInvoiceEarlier"}

\* what an invoice update must leave alone in invoice i: the fields off the
\* allow-list, and the totals unless the items changed
OffListKept(i) ==
    /\ invoices'[i].invoiceNumber = invoices[i].invoiceNumber
    /\ invoices'[i].createdBy = invoices[i].createdBy
    /\ invoices'[i].items = invoices[i].items
         => /\ invoices'[i].subTotal = invoices[i].subTotal
            /\ invoices'[i].taxTotal = invoices[i].taxTotal
            /\ invoices'[i].grandTotal = invoices[i].grandTotal

\* C12 (as claimed): an invoice update changes only allow-listed fields and
\* the totals derived from the items: invoiceNumber and createdBy of every
\* stored invoice stay, subTotal, taxTotal and grandTotal stay unless the
\* items change, and no other invoice changes
C12_UpdateAllowList ==
    [][UpdatesInvoice =>
         \A i \in InvIds :
             /\ InvoiceExists(i) => InvoiceExists(i)' /\ OffListKept(i)
             /\ i # res'.id => invoices'[i] = invoices[i]
      ]_vars

\* C13 (as claimed): after a successful createInvoice or invoice update
\* that supplied items, every stored item carries the tax rate its body
\* supplied (0 included), 18 when the body supplied none, with
\* tax_amount = quantity * price * rate / 100 (times 100) and
\* total = quantity * price + tax_amount
C13_ItemPricedAtSuppliedRate ==
    (/\ res.op \in {"createInvoice", "updateInvoice", "updateInvoiceEarlier"}
     /\ res.status \in {200, 201}
     /\ Defined(res.body.items))
    => LET sent == Val(res.body.items)
           kept == invoices[res.id].items
       IN  /\ Len(kept) = Len(sent)
           /\ \A k \in 1..Len(sent) :
                LET r == IF Defined(sent[k].tax_rate)
                         THEN Val(sent[k].tax_rate) ELSE 18
                    base == Val(sent[k].quantity) * Val(sent[k].price)
                IN  /\ kept[k].tax_rate = r
                    /\ 100 * kept[k].tax_amount = base * r
                    /\ kept[k].total = base + kept[k].tax_amount

\* the step is the answer of report op
Reports(op) == res' # res /\ res'.op = op

\* the transactions of T that are not soft-deleted
Live(T) == {t \in T : ~txns[t].deleted}

\* C14 (as claimed): no report counts a soft-deleted transaction: the sums
\* a report answers are the sums over the transactions of its window that
\* are not soft-deleted
C14_ReportsSkipDeleted ==
    [][/\ Reports("profitAndLoss") =>
            /\ res'.out.totalIncome
                 = SumAmount(Live(Matched({"Income"}, res'.body)))
            /\ res'.out.totalExpense
                 = SumAmount(Live(Matched({"Expense"}, res'.body)))
       /\ Reports("cashFlow") =>
            /\ res'.out.totalCashInflow
                 = SumAmount(Live(Matched({"Income"}, res'.body)))
            /\ res'.out.totalCashOutflow
                 = SumAmount(Live(Matched({"Expense"}, res'.body)))
            /\ res'.out.financingActivities
                 = SumAmount(Live(Matched({"Loan", "Investment"}, res'.body)))
       /\ Reports("taxReport") =>
            \E strictQuery \in BOOLEAN :
                LET T == Live(Found(res'.body, strictQuery))
                    sales == SumTaxAmount({t \in T : txns[t].type = "Income"})
                    purchases == SumTaxAmount({t \in T : txns[t].type = "Expense"})
                IN  /\ res'.out.gstOnSales = sales
                    /\ res'.out.gstOnPurchases = purchases
                    /\ res'.out.netGST = sales - purchases
      ]_vars

\* the pre-tax base of a stored transaction: the amount its stored tax was
\* computed on at its stored rate, its amount when the rate is 0
BaseAmount(t) ==
    IF txns[t].tax_rate = 0 THEN txns[t].amount
    ELSE (100 * txns[t].tax_amount) \div txns[t].tax_rate

RECURSIVE SumBaseAmount(_)
SumBaseAmount(T) ==
    IF T = {} THEN 0
    ELSE LET t == CHOOSE x \in T : TRUE
         IN  BaseAmount(t) + SumBaseAmount(T \ {t})

\* the transactions of a kind dated in the year, and in the month when the
\* query names one
DatedIn(kind, query) ==
    {t \in TxnIds :
        /\ TxnExists(t) /\ txns[t].type = kind
        /\ txns[t].date[1] = (IF Defined(query.year) THEN Val(query.year)
                              ELSE Now[1])
        /\ Defined(query.month) => txns[t].date[2] = Val(query.month)}

\* C15 (as claimed): profitAndLoss answers totalIncome = the pre-tax base
\* amounts of the Income transactions dated in the window, totalExpense the
\* same for Expense, net = totalIncome - totalExpense and status Profit,
\* Loss or Break-even by the sign of net, for created and edited
\* transactions
C15_ProfitAndLoss ==
    [][Reports("profitAndLoss") =>
         LET income == SumBaseAmount(DatedIn("Income", res'.body))
             expense == SumBaseAmount(DatedIn("Expense", res'.body))
             out == res'.out
         IN  /\ out.totalIncome = income
             /\ out.totalExpense = expense
             /\ out.netProfitOrLoss = income - expense
             /\ out.status = IF income > expense THEN "Profit"
                             ELSE IF income < expense THEN "Loss"
                             ELSE "Break-even"
      ]_vars

\* the roles the routes are documented to admit
Admitted(op) ==
    IF op \in {"deleteAccount", "softDeleteTransaction"}
    THEN {"admin"}
    ELSE IF op \in {"createAccount", "updateAccount", "createTransaction",
                    "editTransaction", "createInvoice", "updateInvoice"}
    THEN {"admin", "accountant"}
    ELSE {}

\* the request an arrival step starts or answers
Arrived ==
    IF req'[1] # req[1] THEN req'[1].op ELSE res'.op

\* C16: a mutating route acts only for a caller whose role it admits
\* (admin or accountant; admin alone for deleteAccount and
\* softDeleteTransaction).  Any other caller is answered 403, or 401 with no
\* or an invalid token, and the handler is not run: no request is started
\* and accounts, transactions and invoices are left as they were.  Every
\* change of stored data is made by a request of an admitted caller.
C16_RoleGating ==
    [][ /\ (ops' # ops /\ caller' \notin Admitted(Arrived))
           => /\ res'.status =
                   (IF caller' \in {"none", "invalid"} THEN 401 ELSE 403)
              /\ req' = req
              /\ UNCHANGED <<accounts, txns, invoices, nextAcc>>
        /\ (accounts' # accounts \/ txns' # txns)
           => /\ req[1].op # "none"
              /\ caller' = caller
              /\ caller \in Admitted(req[1].op)
        /\ (invoices' # invoices)
           => caller' \in Admitted(res'.op) ]_vars

\* C16 witness: an accountant was refused deleteAccount with 403 while the
\* account it named is still there
C16_Witness ==
    /\ caller = "accountant"
    /\ res.op = "deleteAccount"
    /\ res.status = 403
    /\ req[1].op = "none"
    /\ accounts[1] # NoDoc

\* no two stored accounts share a name
NamesUnique ==
    \A a, b \in AccIds :
        (a # b /\ AccountExists(a) /\ AccountExists(b))
            => accounts[a].name # accounts[b].name

\* the step stores a new account
AccountAdded == \E a \in AccIds : ~AccountExists(a) /\ accounts'[a] # NoDoc

\* C17: account names are unique in every reachable state, whatever the
\* interleaving of createAccount and updateAccount requests.  A
\* createAccount that arrives with a name in use (or without name or
\* amount) is answered 400 and creates nothing: only a request whose name
\* was free when it arrived goes on to the save, and only the save of such
\* a request, answered 201, adds an account.
C17_AccountNamesUnique ==
    /\ []NamesUnique
    /\ [][ /\ \A r \in Reqs :
                Starts(r, "createAccount") =>
                   /\ accounts' = accounts
                   /\ IF req'[r].pc = "ca_save"
                      THEN ~NameTaken(Val(req'[r].body.name))
                      ELSE req'[r].pc = "respond" /\ req'[r].status = 400
           /\ AccountAdded =>
                \E r \in Reqs :
                   /\ req[r].op = "createAccount" /\ req[r].pc = "ca_save"
                   /\ req'[r].status = 201
                   /\ ~NameTaken(Val(req[r].body.name)) ]_vars

\* C17 witness: two accounts with different names are stored and a request
\* that raced for a name lost at the unique index
C17_Witness ==
    /\ AccountExists(1) /\ AccountExists(2)
    /\ \E r \in Reqs :
         /\ req[r].op \in {"createAccount", "updateAccount"}
         /\ req[r].pc = "respond" /\ req[r].status = 500

\* r commits an editTransaction whose body carries the given fields only
\* (of type, amount and tax_rate)
CommitsEdit(r, withType, withAmount, withRate) ==
    /\ Commits(r)
    /\ req[r].op = "editTransaction"
    /\ Defined(req[r].body.type) = withType
    /\ Defined(req[r].body.amount) = withAmount
    /\ Defined(req[r].body.tax_rate) = withRate

\* C18 (as claimed): an edit that supplies tax_rate and no amount prices
\* the transaction again from its stored amount: tax_rate is the new rate,
\* tax_amount = amount * tax_rate / 100, total = amount + tax_amount, the
\* amount is unchanged and the owning balance moves by the signed
\* difference of the new and the old total (times 100)
C18_TaxRateOnlyEdit ==
    [][\A r \in Reqs :
         CommitsEdit(r, FALSE, FALSE, TRUE)
         => LET old == txns[req[r].id]
                new == txns'[req[r].id]
                a == old.account
                rate == Val(req[r].body.tax_rate)
                sign == IF old.type \in {"Income", "Loan", "Investment"}
                        THEN 1 ELSE -1
            IN  /\ new.tax_rate = rate
                /\ new.amount = old.amount
                /\ 100 * new.tax_amount = old.amount * rate
                /\ 100 * new.total = 100 * old.amount + old.amount * rate
                /\ accounts'[a].amount - accounts[a].amount
                     = sign * (new.total - old.total)
      ]_vars

\* C19 (as claimed): an edit that changes only the kind moves the owning
\* balance by twice the stored total T: from Income (or Loan, Investment)
\* to Expense it lowers the balance by 2 * T, from Expense to one of the
\* others it raises it by 2 * T
C19_KindChangeMovesTwiceTotal ==
    [][\A r \in Reqs :
         CommitsEdit(r, TRUE, FALSE, FALSE)
         => LET old == txns[req[r].id]
                new == txns'[req[r].id]
                a == old.account
                T == old.total
                credit(k) == k \in {"Income", "Loan", "Investment"}
            IN  /\ new.type = Val(req[r].body.type)
                /\ (credit(old.type) /\ ~credit(new.type))
                     => accounts'[a].amount = accounts[a].amount - 2 * T
                /\ (~credit(old.type) /\ credit(new.type))
                     => accounts'[a].amount = accounts[a].amount + 2 * T
      ]_vars

\* C20: the check of deleteAccount for referencing transactions and its
\* delete are two steps: the check changes nothing and, when it finds no
\* reference, leaves the request before its delete; the delete, taken in
\* whatever state the store is by then, removes the account and answers
\* 200 without looking at the transactions again, and leaves every
\* transaction as it is
C20_DeleteAccountCheckThenDelete ==
    [][\A r \in Reqs :
         /\ (Acts(r) /\ req[r].pc = "da_check")
            => /\ LedgerUnchanged
               /\ (TransactionsOf(req[r].id) = {}) => req'[r].pc = "da_delete"
         /\ (Acts(r) /\ req[r].pc = "da_delete")
            => /\ accounts'[req[r].id] = NoDoc
               /\ txns' = txns
               /\ req'[r].status = 200 /\ req'[r].pc = "respond"
      ]_vars

\* C20 witness: a createTransaction committed between the check and the
\* delete of a deleteAccount: the deleteAccount was answered 200, the
\* createTransaction 201, and the committed, non-deleted transaction
\* references the account that is gone
C20_Witness ==
    \E r, q \in Reqs :
        /\ req[r].op = "deleteAccount" /\ req[r].status = 200
        /\ ~AccountExists(req[r].id)
        /\ req[q].op = "createTransaction" /\ req[q].status = 201
        /\ req[q].sess = "committed"
        /\ TxnExists(req[q].id) /\ ~txns[req[q].id].deleted
        /\ txns[req[q].id].account = req[r].id

\* C21 (as claimed): createTransaction applies no domain check to the tax
\* computation: for every supplied rate, negative ones included, and every
\* non-zero base, negative ones included, the record it stores has
\* tax_amount = amount * tax_rate / 100 (times 100) and
\* total = amount + tax_amount, an absent rate counting as 0
C21_TaxWithoutDomainCheck ==
    [][\A r \in Reqs :
         (Commits(r) /\ req[r].op = "createTransaction")
         => LET body == req[r].body
                new == txns'[req'[r].id]
                base == Val(body.amount)
                rate == IF Defined(body.tax_rate) THEN Val(body.tax_rate) ELSE 0
            IN  /\ new.amount = base
                /\ 100 * new.tax_amount = base * rate
                /\ new.total = base + new.tax_amount
      ]_vars

\* r serves an editTransaction whose body supplies no field
EmptyEdit(r) ==
    /\ req[r].op = "editTransaction"
    /\ Defined(req[r].body)
    /\ \A f \in DOMAIN req[r].body : ~Defined(req[r].body[f])

\* C22: an editTransaction with an empty body on an active transaction is
\* a no-op on the ledger: no step of it, its commit included, changes the
\* amount, tax_rate, tax_amount, total or kind of the transaction, or any
\* other stored field, or any balance: the owning account's balance is
\* after each of its steps what it was before
C22_EmptyEditIsNoOp ==
    [][\A r \in Reqs :
         (Acts(r) /\ EmptyEdit(r))
         => /\ txns' = txns
            /\ accounts' = accounts
            /\ Commits(r) => req'[r].status = 200
      ]_vars

\* C22 witness: an empty edit of a taxed transaction committed and was
\* answered 200; the record and the balance are those of the creation
C22_Witness ==
    \E r \in Reqs :
        /\ EmptyEdit(r)
        /\ req[r].sess = "committed" /\ req[r].status = 200
        /\ TxnExists(req[r].id)
        /\ txns[req[r].id].amount = 1000
        /\ txns[req[r].id].total = 1100
        /\ AccountExists(txns[req[r].id].account)
        /\ accounts[txns[req[r].id].account].amount \in {1100, -1100}

\* the step removes account a
AccountRemoved(a) == AccountExists(a) /\ accounts'[a] = NoDoc

\* C23 (as claimed): once a transaction has been created against an
\* account, soft-deleted or not, no deleteAccount on it succeeds: no step
\* removes an account that a stored transaction references
C23_AsClaimed ==
    [][\A a \in AccIds : AccountRemoved(a) => TransactionsOf(a) = {}]_vars

\* C23 (amended): deleteAccount counts soft-deleted transactions as
\* references: a deleteAccount whose check runs while any stored
\* transaction, soft-deleted ones included, references the account is
\* answered 400 and changes nothing, before or after its answer; a stored
\* transaction stays stored with its account, so every deleteAccount whose
\* check runs after a transaction was committed against the account is
\* refused; an account is removed only by the delete step of a
\* deleteAccount whose check found no transaction
C23_DeleteAccountCountsSoftDeleted ==
    [][/\ \A t \in TxnIds :
            TxnExists(t) => TxnExists(t)' /\ txns'[t].account = txns[t].account
       /\ \A r \in Reqs :
            /\ (/\ Acts(r) /\ req[r].op = "deleteAccount"
                /\ req[r].pc = "da_check" /\ TransactionsOf(req[r].id) # {})
               => /\ req'[r].status = 400 /\ req'[r].pc = "respond"
                  /\ LedgerUnchanged
            /\ (Acts(r) /\ req[r].op = "deleteAccount" /\ req[r].status = 400)
               => LedgerUnchanged
       /\ \A a \in AccIds :
            AccountRemoved(a)
            => \E r \in Reqs :
                 /\ Acts(r) /\ req[r].op = "deleteAccount"
                 /\ req[r].pc = "da_delete" /\ req[r].id = a
      ]_vars

\* C23 witness: every transaction that references the account is
\* soft-deleted, a deleteAccount on it was answered 400 and the account is
\* still stored
C23_Witness ==
    \E r \in Reqs :
        /\ req[r].op = "deleteAccount" /\ req[r].status = 400
        /\ AccountExists(req[r].id)
        /\ TransactionsOf(req[r].id) # {}
        /\ \A t \in TransactionsOf(req[r].id) : txns[t].deleted

\* the last answer carries the data of a report
ReportData ==
    /\ res.op \in {"profitAndLoss", "balanceSheet", "cashFlow", "taxReport"}
    /\ res.status = 200
    /\ Defined(res.out)

\* C24 (as claimed): every report is gated like the other operations:
\* whenever the last answer carries report data (of profitAndLoss,
\* balanceSheet, cashFlow or taxReport), the request it answered came with
\* a valid token of role admin or accountant; a request with no token, an
\* invalid token or role staff gets no report data
C24_ReportsGated ==
    ReportData => caller \in {"admin", "accountant"}

\* the unit of the request is closed: committed or aborted
Closed(rq) == rq.sess \in {"committed", "aborted"}

\* C25 (as claimed): every atomic unit that createTransaction or
\* editTransaction opens is closed exactly once on every path (success,
\* account or transaction not found, failure of a save, failure of the
\* commit): a request whose try block failed or found nothing aborts the
\* unit, ends the session and answers; a closed unit keeps its outcome, so
\* a committed one is never aborted afterwards and none is closed twice;
\* and the request leaves the handler only with its unit closed and its
\* one response sent
C25_UnitClosedOnce ==
    [][\A r \in Reqs :
         (Acts(r) /\ InUnit(req[r]) /\ req[r].sess # "none")
         => /\ req[r].pc = "abort"
               => /\ req'[r].sess = "aborted"
                  /\ req'[r].pc = "respond"
                  /\ req'[r].status >= 400
            /\ (req[r].pc = "commit" /\ ~Commits(r))
               => req'[r].pc = "abort"
            /\ Commits(r)
               => req'[r].pc = "respond" /\ req'[r].status \in {200, 201}
            /\ Closed(req[r])
               => /\ req[r].pc = "respond" /\ req[r].status # 0
                  /\ req'[r].pc = "idle"
            /\ req'[r].pc = "idle" => Closed(req[r])
      ]_vars

====
